---- MODULE Spec2Model ----
(***************************************************************************)
(* Plan-as-code execution engine of the customer service agent             *)
(* (src/agentic_ai/muti_agent_example/customer_service_agent/M5_UGL_1_R.py)*)
(*                                                                         *)
(* A raw text is a sequence of tokens.  A token is either one complete     *)
(* occurrence of a delimiter tag or one character that belongs to no tag:  *)
(*   "O"  <execute_python>      "Ou"  <EXECUTE_PYTHON>  (other letter case)*)
(*   "C"  </execute_python>     "Cu"  </EXECUTE_PYTHON>                    *)
(*   "n"  a newline (whitespace for str.strip, the character "." does not  *)
(*        match without re.DOTALL)                                         *)
(*   "x"  any other character                                              *)
(* Neither tag overlaps itself or the other one, so an occurrence of a tag *)
(* in a Python string is exactly one tag token here.                       *)
(*                                                                         *)
(* The generated plan is opaque Python; it is modelled as the sequence of  *)
(* operations it performs, each drawn from PlanOps when it is executed.    *)
(***************************************************************************)
EXTENDS Integers, Sequences, FiniteSets, TLC

VARIABLES
    pc,               \* position of the call: idle, extract, exec, harvest, returned, raised,
                      \* extracted (extractor alone), store (ledger helpers alone)
    text,             \* code_or_content handed to execute_generated_code
    planLen,          \* number of statements of the plan body in the text
    parses,           \* whether the extracted code compiles
    code,             \* local `code`
    SAFE_LOCALS,      \* names bound by the plan body
    sys_stdout,       \* the process-wide sys.stdout: "console" or "buffer"
    old_stdout,       \* _old_stdout
    stdout_buf,       \* _stdout_buf: chunks written while redirected
    err_text,         \* local `err_text`
    fault,            \* what exec raised in this call
    ip,               \* statements of the plan body executed so far
    result,           \* the dict returned to the caller
    raised,           \* exception that left execute_generated_code
    inventory_tbl,    \* item_id -> quantity_in_stock
    transactions_tbl, \* ledger rows in insertion order
    inv_before,       \* inventory as rendered before the call
    txn_before,       \* ledger as rendered before the call
    mutated,          \* whether the plan body has executed a write to a table in this call
    agent_out,        \* the dict customer_service_agent returns
    name_read,        \* the name the plan body looked up last in this call
    request,          \* the lines of the customer's request the plan body carries out
    carried,          \* names that plan bodies of earlier calls have bound
    chat,             \* generate_research_report_with_tools: its loop and its messages
    work              \* executor_agent: its loop and its history

vars == <<pc, text, planLen, parses, code, SAFE_LOCALS, sys_stdout, old_stdout, stdout_buf,
          err_text, fault, ip, result, raised, inventory_tbl, transactions_tbl,
          inv_before, txn_before,
          mutated, agent_out, name_read, request, carried,
          chat, work>>

\* the state of customer_service_agent and of the executor under it
agentVars == <<pc, text, planLen, parses, code, SAFE_LOCALS, sys_stdout, old_stdout,
               stdout_buf, err_text, fault, ip, result, raised, inventory_tbl,
               transactions_tbl, inv_before, txn_before, mutated, agent_out,
               name_read, request, carried>>

----------------------------------------------------------------------------
(* Bounds *)

MaxLen == 6        \* longest raw text checked by the extractor specification
MaxPlanLen == 3    \* longest plan body
MaxQty == 1        \* |quantity_in_stock| stays within this
MaxLedger == 1     \* a row is inserted only while the ledger has at most this many
MaxSeedRows == 2   \* rows of a ledger built under arbitrary ids
MaxNum == 3        \* largest number of an arbitrary id
MaxRows == 4       \* rows of a ledger after the appends under fresh ids
MaxPolicyRows == 4 \* a request is carried out only while the ledger stays within this
MaxToolCalls == 2  \* most tool calls in one assistant message
MaxPlanSteps == 5  \* longest plan the planner returns

----------------------------------------------------------------------------
(* Texts *)

Tokens == {"O", "Ou", "C", "Cu", "n", "x"}

\* str.lower on one token, as re.IGNORECASE compares
Lower(tok) == CASE tok = "Ou" -> "O" [] tok = "Cu" -> "C" [] OTHER -> tok

\* the open tag compared without re.IGNORECASE
IsOpen_case_sensitive(tok) == tok = "O"

IsOpen(tok) == Lower(tok) = "O"

IsClose(tok) == Lower(tok) = "C"

IsSpace(tok) == tok = "n"

SetMin(S) == CHOOSE m \in S : \A o \in S : m <= o

SetMax(S) == CHOOSE m \in S : \A o \in S : m >= o

\* str.strip(): drop leading and trailing whitespace
Strip(s) ==
    LET keep == {i \in 1..Len(s) : ~IsSpace(s[i])}
    IN IF keep = {} THEN <<>> ELSE SubSeq(s, SetMin(keep), SetMax(keep))

NoMatch == [found |-> FALSE, start |-> 0, stop |-> 0]

\* positions of the close tags that can end a match opened at i: with
\* re.DOTALL the group (.*?) runs over every character, newlines included
ClosesAfter(t, i) == {j \in (i + 1)..Len(t) : IsClose(t[j])}

\* the group stopping at the last close tag, as the greedy (.*) would
re_search_greedy(t) ==
    LET starts == {i \in 1..Len(t) : IsOpen(t[i]) /\ ClosesAfter(t, i) # {}}
    IN IF starts = {} THEN NoMatch
       ELSE [found |-> TRUE, start |-> SetMin(starts),
             stop |-> SetMax(ClosesAfter(t, SetMin(starts)))]

\* re.search(r"<execute_python>(.*?)</execute_python>", text, re.DOTALL | re.IGNORECASE):
\* the leftmost position at which the pattern matches, and there the shortest group
re_search(t) ==
    LET starts == {i \in 1..Len(t) : IsOpen(t[i]) /\ ClosesAfter(t, i) # {}}
    IN IF starts = {} THEN NoMatch
       ELSE [found |-> TRUE, start |-> SetMin(starts),
             stop |-> SetMin(ClosesAfter(t, SetMin(starts)))]

\* m.group(1)
Group1(t, m) == SubSeq(t, m.start + 1, m.stop - 1)

\* the guard written as `if not text.strip()`
extract_rejects_blank(t) ==
    IF Strip(t) = <<>> THEN [ok |-> FALSE, value |-> <<>>]
    ELSE LET m == re_search(t)
         IN [ok |-> TRUE, value |-> IF m.found THEN Strip(Group1(t, m)) ELSE Strip(t)]

\* the fallback written as `else text`
extract_fallback_raw(t) ==
    IF t = <<>> THEN [ok |-> FALSE, value |-> <<>>]
    ELSE LET m == re_search(t)
         IN [ok |-> TRUE, value |-> IF m.found THEN Strip(Group1(t, m)) ELSE t]

\* _extract_execute_block(text); ok = FALSE is the RuntimeError it raises
extract_execute_block(t) ==
    IF t = <<>> THEN [ok |-> FALSE, value |-> <<>>]
    ELSE LET m == re_search(t)
         IN [ok |-> TRUE, value |-> IF m.found THEN Strip(Group1(t, m)) ELSE Strip(t)]
----------------------------------------------------------------------------
(* Values of the executed plan *)

\* names the plan body is asked to bind; "Unset" is a name absent from the dict
PlanNames == {"answer_text", "answer_rows", "answer_json", "STATUS"}

Unset == "Unset"

FreshLocals == [n \in PlanNames |-> Unset]

\* values a plan binds: a sentence or the empty string, a row list or [],
\* a structured value, a status inside or outside the enumeration of the prompt
ValuesOf(n) ==
    CASE n = "answer_text" -> {"sentence", ""}
      [] n = "answer_rows" -> {"rows", "[]"}
      [] n = "answer_json" -> {"json"}
      [] n = "STATUS" -> {"success", "shipped"}

StatusEnum == {"success", "no_match", "insufficient_stock", "invalid_request",
               "unsupported_intent"}

\* dict.get(name): None for an absent name
Get(L, n) == IF L[n] = Unset THEN "None" ELSE L[n]

\* Python truth value of the values above
Truthy(v) == v \notin {"None", "", "[]", "{}"}

\* a or b
PyOr(a, b) == IF Truthy(a) THEN a ELSE b

\* the harvest reading answer_text alone
Answer_text_only(L) == Get(L, "answer_text")

\* answer = locals.get("answer_text") or locals.get("answer_rows") or locals.get("answer_json")
Answer(L) ==
    PyOr(PyOr(Get(L, "answer_text"), Get(L, "answer_rows")), Get(L, "answer_json"))

Items == {"SG001", "SG005"}

PlanOps ==
    UNION {{[op |-> "bind", name |-> n, value |-> v] : v \in ValuesOf(n)} : n \in PlanNames}
    \cup {[op |-> "print", chunk |-> c] : c \in {<<"x">>}}
    \cup {[op |-> "update", item |-> i, delta |-> d] : i \in Items, d \in {-1, 1}}
    \cup {[op |-> "insert", form |-> "policy", amount |-> a] : a \in {-1, 1}}
    \cup {[op |-> "insert", form |-> "literal", amount |-> 1]}
    \cup {[op |-> "remove"]}
    \cup {[op |-> "raise", exc |-> e] : e \in {"Exception", "BaseException"}}
----------------------------------------------------------------------------
(* The store and the call *)

NoResult == [returned |-> FALSE]

None == "None"

\* a transaction id: its prefix and its number
TxnId(p, k) == [prefix |-> p, num |-> k]

\* the opening balance row of the seeded ledger
OpeningRow ==
    [transaction_id |-> TxnId("TXN", 1),
     transaction_amount |-> 5,
     balance_after_transaction |-> 5]

\* the running balance of the oldest row
get_current_balance_of_first(tbl) ==
    IF tbl = <<>> THEN 0 ELSE tbl[1].balance_after_transaction

\* get_current_balance(tbl): the running balance of the newest row, zero
\* for a ledger without rows
get_current_balance(tbl) ==
    IF tbl = <<>> THEN 0 ELSE tbl[Len(tbl)].balance_after_transaction

\* the numbers of the ids of tbl that carry the prefix
NumsWith(tbl, prefix) ==
    {tbl[k].transaction_id.num : k \in {j \in 1..Len(tbl) : tbl[j].transaction_id.prefix = prefix}}

\* an id numbered by the count of rows
next_transaction_id_by_count(tbl, prefix) == TxnId(prefix, Len(tbl) + 1)

\* next_transaction_id(tbl, prefix): the prefix with the number after the
\* largest one in use under that prefix
next_transaction_id(tbl, prefix) ==
    TxnId(prefix, 1 + SetMax(NumsWith(tbl, prefix) \cup {0}))

\* the row a plan body builds as the transaction policy tells it to: a
\* fresh id and the running balance moved by the amount
PolicyRow(tbl, amount) ==
    [transaction_id |-> next_transaction_id(tbl, "TXN"),
     transaction_amount |-> amount,
     balance_after_transaction |-> get_current_balance(tbl) + amount]

\* the row a plan body builds from literals: the sample id of the schema,
\* the amount as the balance
LiteralRow(amount) ==
    [transaction_id |-> TxnId("TXN", 1),
     transaction_amount |-> amount,
     balance_after_transaction |-> amount]

\* generate_research_report_with_tools has not been called
NoChat ==
    [status |-> "idle", turn |-> 0, tool_calls |-> <<>>, tool_msgs |-> <<>>,
     final_text |-> "unbound", returned |-> "none", error |-> "none"]

\* executor_agent has not been called
NoWork ==
    [status |-> "idle", planned |-> 0, limit_steps |-> TRUE, plan_steps |-> <<>>,
     history |-> <<>>, contexts |-> <<>>, returned |-> <<>>, error |-> "none"]

Init ==
    /\ pc = "idle"
    /\ text = <<>>
    /\ planLen = 0
    /\ parses = TRUE
    /\ code = <<>>
    /\ SAFE_LOCALS = FreshLocals
    /\ sys_stdout = "console"
    /\ old_stdout = "console"
    /\ stdout_buf = <<>>
    /\ err_text = None
    /\ fault = "none"
    /\ ip = 0
    /\ result = NoResult
    /\ raised = "none"
    /\ inventory_tbl = [i \in Items |-> 1]
    /\ transactions_tbl = <<OpeningRow>>
    /\ inv_before = [i \in Items |-> 1]
    /\ txn_before = <<OpeningRow>>
    /\ mutated = FALSE
    /\ agent_out = NoResult
    /\ name_read = "none"
    /\ request = <<>>
    /\ carried = {}
    /\ chat = NoChat
    /\ work = NoWork

\* raw texts handed to the executor by its callers
CallTexts == {<<>>, <<"n">>, <<"x", "Ou", "n", "x", "C", "x">>}

\* a caller that reseeds both tables after it has rendered them
Call_reseed_after_render(t) ==
    /\ pc \in {"idle", "returned", "raised"}
    /\ pc' = "extract"
    /\ text' = t
    /\ planLen' = 0
    /\ parses' = TRUE
    /\ code' = <<>>
    /\ SAFE_LOCALS' = FreshLocals
    /\ stdout_buf' = <<>>
    /\ err_text' = None
    /\ fault' = "none"
    /\ ip' = 0
    /\ result' = NoResult
    /\ raised' = "none"
    /\ inv_before' = inventory_tbl
    /\ txn_before' = transactions_tbl
    /\ mutated' = FALSE
    /\ agent_out' = NoResult
    /\ name_read' = "none"
    /\ inventory_tbl' = [i \in Items |-> 1]
    /\ transactions_tbl' = <<OpeningRow>>
    /\ UNCHANGED <<sys_stdout, old_stdout>>
    /\ UNCHANGED <<request, carried, chat, work>>

\* a caller that gives up on a call in progress and starts the next one
Call_while_running(t) ==
    /\ pc \in {"idle", "returned", "raised", "looping"}
    /\ pc' = "extract"
    /\ text' = t
    /\ planLen' = 0
    /\ parses' = TRUE
    /\ code' = <<>>
    /\ SAFE_LOCALS' = FreshLocals
    /\ stdout_buf' = <<>>
    /\ err_text' = None
    /\ fault' = "none"
    /\ ip' = 0
    /\ result' = NoResult
    /\ raised' = "none"
    /\ inv_before' = inventory_tbl
    /\ txn_before' = transactions_tbl
    /\ mutated' = FALSE
    /\ agent_out' = NoResult
    /\ name_read' = "none"
    /\ UNCHANGED <<sys_stdout, old_stdout, inventory_tbl, transactions_tbl>>
    /\ UNCHANGED <<request, carried, chat, work>>

\* a caller renders both tables and calls execute_generated_code(text, ...)
Call(t) ==
    /\ pc \in {"idle", "returned", "raised"}
    /\ pc' = "extract"
    /\ text' = t
    /\ planLen' = 0
    /\ parses' = TRUE
    /\ code' = <<>>
    /\ SAFE_LOCALS' = FreshLocals
    /\ stdout_buf' = <<>>
    /\ err_text' = None
    /\ fault' = "none"
    /\ ip' = 0
    /\ result' = NoResult
    /\ raised' = "none"
    /\ inv_before' = inventory_tbl
    /\ txn_before' = transactions_tbl
    /\ mutated' = FALSE
    /\ agent_out' = NoResult
    /\ name_read' = "none"
    /\ UNCHANGED <<sys_stdout, old_stdout, inventory_tbl, transactions_tbl>>
    /\ UNCHANGED <<request, carried, chat, work>>

\* the redirection done before the extraction
Enter_redirect_first ==
    /\ pc = "extract"
    /\ old_stdout' = sys_stdout
    /\ sys_stdout' = "buffer"
    /\ LET e == extract_execute_block(text)
       IN \/ /\ ~e.ok
             /\ raised' = "RuntimeError"
             /\ pc' = "raised"
             /\ UNCHANGED <<planLen, parses, code, SAFE_LOCALS, stdout_buf, err_text>>
          \/ /\ e.ok
             /\ code' = e.value
             /\ \E n \in 0..MaxPlanLen, p \in BOOLEAN :
                  /\ (e.value = <<>>) => (n = 0 /\ p)
                  /\ ~p => n = 0
                  /\ planLen' = n
                  /\ parses' = p
             /\ SAFE_LOCALS' = FreshLocals
             /\ stdout_buf' = <<>>
             /\ err_text' = None
             /\ pc' = "exec"
             /\ UNCHANGED raised
    /\ UNCHANGED <<text, fault, ip, result, inventory_tbl, transactions_tbl,
                   inv_before, txn_before,
                   mutated, agent_out, name_read>>
    /\ UNCHANGED <<request, carried, chat, work>>

\* a namespace dict that outlives the call and is used again by the next
Enter_keeps_locals ==
    /\ pc = "extract"
    /\ LET e == extract_execute_block(text)
       IN \/ /\ ~e.ok
             /\ raised' = "RuntimeError"
             /\ pc' = "raised"
             /\ UNCHANGED <<planLen, parses, code, SAFE_LOCALS, sys_stdout,
                            old_stdout, stdout_buf, err_text>>
          \/ /\ e.ok
             /\ code' = e.value
             /\ \E n \in 0..MaxPlanLen, p \in BOOLEAN :
                  /\ (e.value = <<>>) => (n = 0 /\ p)
                  /\ ~p => n = 0
                  /\ planLen' = n
                  /\ parses' = p
             /\ UNCHANGED SAFE_LOCALS
             /\ old_stdout' = sys_stdout
             /\ sys_stdout' = "buffer"
             /\ stdout_buf' = <<>>
             /\ err_text' = None
             /\ pc' = "exec"
             /\ UNCHANGED raised
    /\ UNCHANGED <<text, fault, ip, result, inventory_tbl, transactions_tbl,
                   inv_before, txn_before,
                   mutated, agent_out, name_read>>
    /\ UNCHANGED <<request, carried, chat, work>>

\* execute_generated_code up to the try: the extraction, the two namespaces,
\* the redirection of sys.stdout.  The extracted code has some number of
\* statements and compiles or not; empty code has none and compiles, code
\* that does not compile executes none.
Enter ==
    /\ pc = "extract"
    /\ LET e == extract_execute_block(text)
       IN \/ /\ ~e.ok
             /\ raised' = "RuntimeError"
             /\ pc' = "raised"
             /\ UNCHANGED <<planLen, parses, code, SAFE_LOCALS, sys_stdout,
                            old_stdout, stdout_buf, err_text>>
          \/ /\ e.ok
             /\ code' = e.value
             /\ \E n \in 0..MaxPlanLen, p \in BOOLEAN :
                  /\ (e.value = <<>>) => (n = 0 /\ p)
                  /\ ~p => n = 0
                  /\ planLen' = n
                  /\ parses' = p
             /\ SAFE_LOCALS' = FreshLocals
             /\ old_stdout' = sys_stdout
             /\ sys_stdout' = "buffer"
             /\ stdout_buf' = <<>>
             /\ err_text' = None
             /\ pc' = "exec"
             /\ UNCHANGED raised
    /\ UNCHANGED <<text, fault, ip, result, inventory_tbl, transactions_tbl,
                   inv_before, txn_before,
                   mutated, agent_out, name_read>>
    /\ UNCHANGED <<request, carried, chat, work>>
----------------------------------------------------------------------------
(* exec(code, SAFE_GLOBALS, SAFE_LOCALS) inside try / except Exception / finally *)

\* a try without the except clause
Catches_nothing(exc) == FALSE

\* `except Exception`: SyntaxError and the ordinary runtime errors derive from
\* Exception; SystemExit and KeyboardInterrupt derive from BaseException only
Catches(exc) == exc \in {"Exception", "SyntaxError"}

\* the handler leaving err_text as it was
format_exc_dropped(exc) == None

\* traceback.format_exc()
format_exc(exc) ==
    CASE exc = "SyntaxError" -> "Traceback: SyntaxError"
      [] exc = "Exception" -> "Traceback: Exception"
      [] OTHER -> "Traceback: BaseException"

\* a handler that records the fault and lets the plan body go on
Fault_resume(exc) ==
    /\ fault' = exc
    /\ err_text' = format_exc(exc)
    /\ UNCHANGED <<pc, sys_stdout, raised>>

\* exec raised exc: the except clause when it applies, then the finally
Fault(exc) ==
    /\ fault' = exc
    /\ sys_stdout' = old_stdout
    /\ IF Catches(exc)
       THEN /\ err_text' = format_exc(exc)
            /\ pc' = "harvest"
            /\ UNCHANGED raised
       ELSE /\ raised' = exc
            /\ pc' = "raised"
            /\ UNCHANGED err_text

\* print(chunk): the chunk and a newline go to the current sys.stdout
Write(chunk) ==
    IF sys_stdout = "buffer"
    THEN stdout_buf' = stdout_buf \o chunk \o <<"n">>
    ELSE UNCHANGED stdout_buf

\* one statement of the plan body
ExecStep(o) ==
    /\ pc = "exec"
    /\ parses
    /\ ip < planLen
    /\ ip' = ip + 1
    /\ \/ /\ o.op = "bind"
          /\ SAFE_LOCALS' = [SAFE_LOCALS EXCEPT ![o.name] = o.value]
          /\ UNCHANGED <<pc, sys_stdout, stdout_buf, err_text, fault, raised,
                         inventory_tbl, transactions_tbl, mutated>>
       \/ /\ o.op = "print"
          /\ Write(o.chunk)
          /\ UNCHANGED <<pc, SAFE_LOCALS, sys_stdout, err_text, fault, raised,
                         inventory_tbl, transactions_tbl, mutated>>
       \/ /\ o.op = "update"
          /\ inventory_tbl[o.item] + o.delta \in (-MaxQty)..MaxQty
          /\ inventory_tbl' = [inventory_tbl EXCEPT ![o.item] = @ + o.delta]
          /\ mutated' = TRUE
          /\ UNCHANGED <<pc, SAFE_LOCALS, sys_stdout, stdout_buf, err_text, fault,
                         raised, transactions_tbl>>
       \/ /\ o.op = "insert"
          /\ Len(transactions_tbl) <= MaxLedger
          /\ transactions_tbl' =
                 Append(transactions_tbl,
                        IF o.form = "policy" THEN PolicyRow(transactions_tbl, o.amount)
                                             ELSE LiteralRow(o.amount))
          /\ mutated' = TRUE
          /\ UNCHANGED <<pc, SAFE_LOCALS, sys_stdout, stdout_buf, err_text, fault,
                         raised, inventory_tbl>>
       \/ /\ o.op = "remove"
          /\ Len(transactions_tbl) > 1
          /\ transactions_tbl' = SubSeq(transactions_tbl, 1, Len(transactions_tbl) - 1)
          /\ mutated' = TRUE
          /\ UNCHANGED <<pc, SAFE_LOCALS, sys_stdout, stdout_buf, err_text, fault,
                         raised, inventory_tbl>>
       \/ /\ o.op = "raise"
          /\ Fault(o.exc)
          /\ UNCHANGED <<SAFE_LOCALS, stdout_buf, inventory_tbl, transactions_tbl, mutated>>
    /\ UNCHANGED <<text, planLen, parses, code, old_stdout, result, inv_before, txn_before,
                   agent_out, name_read>>
    /\ UNCHANGED <<request, carried, chat, work>>

\* the code does not compile: exec raises SyntaxError before the first statement
ExecSyntaxError ==
    /\ pc = "exec"
    /\ ~parses
    /\ Fault("SyntaxError")
    /\ UNCHANGED <<text, planLen, parses, code, SAFE_LOCALS, old_stdout, stdout_buf, ip,
                   result, inventory_tbl, transactions_tbl, inv_before, txn_before,
                   mutated, agent_out, name_read>>
    /\ UNCHANGED <<request, carried, chat, work>>

\* a try statement without the finally clause
ExecEnd_keeps_redirect ==
    /\ pc = "exec"
    /\ parses
    /\ ip = planLen
    /\ pc' = "harvest"
    /\ UNCHANGED <<text, planLen, parses, code, SAFE_LOCALS, sys_stdout, old_stdout,
                   stdout_buf, err_text, fault, ip, result, raised, inventory_tbl,
                   transactions_tbl, inv_before, txn_before,
                   mutated, agent_out, name_read>>
    /\ UNCHANGED <<request, carried, chat, work>>

\* the plan body ran to its end: the finally clause
ExecEnd ==
    /\ pc = "exec"
    /\ parses
    /\ ip = planLen
    /\ sys_stdout' = old_stdout
    /\ pc' = "harvest"
    /\ UNCHANGED <<text, planLen, parses, code, SAFE_LOCALS, old_stdout, stdout_buf,
                   err_text, fault, ip, result, raised, inventory_tbl, transactions_tbl,
                   inv_before, txn_before,
                   mutated, agent_out, name_read>>
    /\ UNCHANGED <<request, carried, chat, work>>

\* a returned dict with the captured output as it was written
ResultDict_raw_stdout ==
    [code |-> code,
     stdout |-> stdout_buf,
     error |-> err_text,
     answer |-> Answer(SAFE_LOCALS),
     transactions_tbl |-> transactions_tbl,
     inventory_tbl |-> inventory_tbl]

\* the dict execute_generated_code returns
ResultDict ==
    [code |-> code,
     stdout |-> Strip(stdout_buf),
     error |-> err_text,
     answer |-> Answer(SAFE_LOCALS),
     transactions_tbl |-> transactions_tbl,
     inventory_tbl |-> inventory_tbl]

\* a returned dict that carries the tables as they were rendered before the call
AgentDict_stale(exec_res) ==
    [full_content |-> text,
     exec |-> [code |-> exec_res.code,
               stdout |-> exec_res.stdout,
               error |-> exec_res.error,
               answer |-> exec_res.answer,
               inventory_after |-> inv_before,
               transactions_after |-> txn_before]]

\* the dict customer_service_agent builds from exec_res: the generator's
\* text, the fields of exec_res, and both tables read again
AgentDict(exec_res) ==
    [full_content |-> text,
     exec |-> [code |-> exec_res.code,
               stdout |-> exec_res.stdout,
               error |-> exec_res.error,
               answer |-> exec_res.answer,
               inventory_after |-> inventory_tbl,
               transactions_after |-> transactions_tbl]]

\* after the try statement: the captured output, the answer, the return; a
\* caller that is customer_service_agent renders the result and returns its own dict
Return ==
    /\ pc = "harvest"
    /\ result' = ResultDict
    /\ agent_out' = AgentDict(ResultDict)
    /\ pc' = "returned"
    /\ UNCHANGED <<text, planLen, parses, code, SAFE_LOCALS, sys_stdout, old_stdout,
                   stdout_buf, err_text, fault, ip, raised, inventory_tbl,
                   transactions_tbl, inv_before, txn_before,
                   mutated, name_read>>
    /\ UNCHANGED <<request, carried, chat, work>>

Next ==
    \/ \E t \in CallTexts : Call(t)
    \/ Enter
    \/ \E o \in PlanOps : ExecStep(o)
    \/ ExecSyntaxError
    \/ ExecEnd
    \/ Return

Spec == Init /\ [][Next]_vars
----------------------------------------------------------------------------
(* Name lookup by the plan body: exec(code, SAFE_GLOBALS, SAFE_LOCALS) *)

\* keys of the dict passed as globals
SAFE_GLOBALS == {"Query", "get_current_balance", "next_transaction_id", "user_request"}

\* keys the dict passed as locals holds before the plan body runs
SAFE_LOCALS_keys == {"db", "inventory_tbl", "transactions_tbl"}

\* exec adds __builtins__ to a globals dict that lacks the key: every
\* built-in is visible; these two stand for the ones that reach the file
\* system and, by importing, everything else
Builtins == {"open", "__import__"}

\* names of the notebook's own module namespace
ModuleNames == {"inv_utils", "client"}

\* names a plan body may look up
LookupNames == SAFE_GLOBALS \cup SAFE_LOCALS_keys \cup Builtins \cup ModuleNames \cup PlanNames

\* a name is looked up in the locals, then the globals, then the built-ins
Resolves(n) ==
    \/ n \in SAFE_LOCALS_keys
    \/ n \in PlanNames /\ SAFE_LOCALS[n] # Unset
    \/ n \in SAFE_GLOBALS
    \/ n \in Builtins

\* one statement of the plan body that reads the name n: NameError when the
\* lookup fails
ExecLoad(n) ==
    /\ pc = "exec"
    /\ parses
    /\ ip < planLen
    /\ ip' = ip + 1
    /\ name_read' = n
    /\ IF Resolves(n)
       THEN UNCHANGED <<pc, sys_stdout, err_text, fault, raised>>
       ELSE Fault("Exception")
    /\ UNCHANGED <<text, planLen, parses, code, SAFE_LOCALS, old_stdout, stdout_buf,
                   result, inventory_tbl, transactions_tbl, inv_before, txn_before,
                   mutated, agent_out>>
    /\ UNCHANGED <<request, carried, chat, work>>

\* the statements that bind a name; answer_json may also be bound to {}
BindOps ==
    {o \in PlanOps : o.op = "bind"}
    \cup {[op |-> "bind", name |-> "answer_json", value |-> "{}"]}

\* a later call of the executor; carried collects the names the plan bodies
\* of the calls before it bound, whose dict is left behind as it is
CallAgain(t) ==
    /\ pc \in {"returned", "raised"}
    /\ pc' = "extract"
    /\ text' = t
    /\ planLen' = 0
    /\ parses' = TRUE
    /\ code' = <<>>
    /\ stdout_buf' = <<>>
    /\ err_text' = None
    /\ fault' = "none"
    /\ ip' = 0
    /\ result' = NoResult
    /\ raised' = "none"
    /\ inv_before' = inventory_tbl
    /\ txn_before' = transactions_tbl
    /\ mutated' = FALSE
    /\ agent_out' = NoResult
    /\ name_read' = "none"
    /\ carried' = carried \cup {n \in PlanNames : SAFE_LOCALS[n] # Unset}
    /\ UNCHANGED <<SAFE_LOCALS, sys_stdout, old_stdout, inventory_tbl, transactions_tbl>>
    /\ UNCHANGED <<request, chat, work>>

NextNames ==
    \/ pc = "idle" /\ \E t \in CallTexts : Call(t)
    \/ \E t \in CallTexts : CallAgain(t)
    \/ Enter
    \/ \E o \in BindOps : ExecStep(o)
    \/ \E n \in LookupNames : ExecLoad(n)
    \/ ExecSyntaxError
    \/ ExecEnd
    \/ Return

SpecNames == Init /\ [][NextNames]_vars
----------------------------------------------------------------------------
(* The ledger helpers on their own: any ledger, then rows appended under *)
(* fresh ids                                                            *)

Prefixes == {"TXN", "RTN"}

\* transactions_tbl.truncate(): a ledger without rows
Truncate ==
    /\ pc = "idle"
    /\ transactions_tbl # <<>>
    /\ transactions_tbl' = <<>>
    /\ UNCHANGED <<pc, text, planLen, parses, code, SAFE_LOCALS, sys_stdout, old_stdout,
                   stdout_buf, err_text, fault, ip, result, raised, inventory_tbl,
                   inv_before, txn_before, mutated, agent_out, name_read>>
    /\ UNCHANGED <<request, carried, chat, work>>

\* running balances of the rows a ledger already holds
SeedBalances == {0, 2}

\* the ledger already holds a row under any id, with any running balance
SeedRow(id, balance) ==
    /\ pc = "idle"
    /\ Len(transactions_tbl) < MaxSeedRows
    /\ transactions_tbl' =
           Append(transactions_tbl,
                  [transaction_id |-> id,
                   transaction_amount |-> 1,
                   balance_after_transaction |-> balance])
    /\ UNCHANGED <<pc, text, planLen, parses, code, SAFE_LOCALS, sys_stdout, old_stdout,
                   stdout_buf, err_text, fault, ip, result, raised, inventory_tbl,
                   inv_before, txn_before, mutated, agent_out, name_read>>
    /\ UNCHANGED <<request, carried, chat, work>>

\* the ledger is handed over as it is
Open ==
    /\ pc = "idle"
    /\ pc' = "store"
    /\ txn_before' = transactions_tbl
    /\ UNCHANGED <<text, planLen, parses, code, SAFE_LOCALS, sys_stdout, old_stdout,
                   stdout_buf, err_text, fault, ip, result, raised, inventory_tbl,
                   transactions_tbl, inv_before, mutated, agent_out, name_read>>
    /\ UNCHANGED <<request, carried, chat, work>>

\* a row is inserted under next_transaction_id(transactions_tbl, prefix)
AppendFresh(prefix) ==
    /\ pc = "store"
    /\ Len(transactions_tbl) < MaxRows
    /\ transactions_tbl' =
           Append(transactions_tbl,
                  [transaction_id |-> next_transaction_id(transactions_tbl, prefix),
                   transaction_amount |-> 1,
                   balance_after_transaction |-> get_current_balance(transactions_tbl) + 1])
    /\ UNCHANGED <<pc, text, planLen, parses, code, SAFE_LOCALS, sys_stdout, old_stdout,
                   stdout_buf, err_text, fault, ip, result, raised, inventory_tbl,
                   inv_before, txn_before, mutated, agent_out, name_read>>
    /\ UNCHANGED <<request, carried, chat, work>>

\* get_current_balance(transactions_tbl) is called and its value kept
ReadBalance ==
    /\ pc = "store"
    /\ pc' = "read"
    /\ result' = [balance |-> get_current_balance(transactions_tbl)]
    /\ UNCHANGED <<text, planLen, parses, code, SAFE_LOCALS, sys_stdout, old_stdout,
                   stdout_buf, err_text, fault, ip, raised, inventory_tbl,
                   transactions_tbl, inv_before, txn_before, mutated, agent_out,
                   name_read>>
    /\ UNCHANGED <<request, carried, chat, work>>

NextStore ==
    \/ Truncate
    \/ \E p \in Prefixes, k \in 1..MaxNum, b \in SeedBalances : SeedRow(TxnId(p, k), b)
    \/ Open
    \/ \E p \in Prefixes : AppendFresh(p)
    \/ ReadBalance

SpecStore == Init /\ [][NextStore]_vars
----------------------------------------------------------------------------
(* Plan bodies that carry out the transaction policy of the prompt, on the *)
(* data of the notebook                                                   *)

\* unit prices: SG001 Aviator at $80, SG005 Classic at $60
Price == [i \in Items |-> IF i = "SG001" THEN 80 ELSE 60]

\* quantity_in_stock of the seeded inventory: SG001 at 23, SG005 at 10; one
\* unit is the case of the nearly sold out item
StockLevels == [i \in Items |-> {1, IF i = "SG001" THEN 23 ELSE 10}]

\* the opening balance row TXN001 for $500.00
OpeningRow500 ==
    [transaction_id |-> TxnId("TXN", 1),
     transaction_amount |-> 500,
     balance_after_transaction |-> 500]

\* quantities a request asks for
Units == {2, 3}

\* one line of a request: buy or return so many units of an item
RequestLines == [item : Items, qty : Units, kind : {"purchase", "return"}]

\* requests over one item or two distinct items, in the order asked
Requests ==
    {<<l>> : l \in RequestLines}
    \cup {<<lines[1], lines[2]>> :
              lines \in {p \in RequestLines \X RequestLines : p[1].item # p[2].item}}

InitPolicy ==
    /\ pc = "idle"
    /\ text = <<>>
    /\ planLen = 0
    /\ parses = TRUE
    /\ code = <<>>
    /\ SAFE_LOCALS = FreshLocals
    /\ sys_stdout = "console"
    /\ old_stdout = "console"
    /\ stdout_buf = <<>>
    /\ err_text = None
    /\ fault = "none"
    /\ ip = 0
    /\ result = NoResult
    /\ raised = "none"
    /\ inventory_tbl \in [Items -> {1, 10, 23}]
    /\ \A i \in Items : inventory_tbl[i] \in StockLevels[i]
    /\ transactions_tbl = <<OpeningRow500>>
    /\ inv_before = inventory_tbl
    /\ txn_before = transactions_tbl
    /\ mutated = FALSE
    /\ agent_out = NoResult
    /\ name_read = "none"
    /\ request = <<>>
    /\ carried = {}
    /\ chat = NoChat
    /\ work = NoWork

\* the generated text is one well-formed block whose code carries out req:
\* the caller's rendering, the extraction, the namespaces, the redirection
PolicyCall(req) ==
    /\ pc \in {"idle", "returned"}
    /\ Len(transactions_tbl) + Len(req) <= MaxPolicyRows
    /\ pc' = "exec"
    /\ request' = req
    /\ text' = <<"O", "x", "C">>
    /\ code' = extract_execute_block(<<"O", "x", "C">>).value
    /\ planLen' = Len(req) + 2
    /\ parses' = TRUE
    /\ SAFE_LOCALS' = FreshLocals
    /\ old_stdout' = sys_stdout
    /\ sys_stdout' = "buffer"
    /\ stdout_buf' = <<>>
    /\ err_text' = None
    /\ fault' = "none"
    /\ ip' = 0
    /\ result' = NoResult
    /\ raised' = "none"
    /\ inv_before' = inventory_tbl
    /\ txn_before' = transactions_tbl
    /\ mutated' = FALSE
    /\ agent_out' = NoResult
    /\ UNCHANGED <<inventory_tbl, transactions_tbl, name_read, carried, chat, work>>

\* every purchase line asks for no more than the item has in stock
Sufficient(req) ==
    \A k \in 1..Len(req) :
        (req[k].kind = "purchase") => (inventory_tbl[req[k].item] >= req[k].qty)

\* checklist step 3, "validate stock": with any item short nothing is
\* written, STATUS and answer_text are set and the body ends
PolicyValidate ==
    /\ pc = "exec"
    /\ request # <<>>
    /\ ip = 0
    /\ IF Sufficient(request)
       THEN /\ ip' = 1
            /\ UNCHANGED SAFE_LOCALS
       ELSE /\ ip' = planLen
            /\ SAFE_LOCALS' = [SAFE_LOCALS EXCEPT !["STATUS"] = "insufficient_stock",
                                                  !["answer_text"] = "sentence"]
    /\ UNCHANGED <<pc, text, planLen, parses, code, sys_stdout, old_stdout, stdout_buf,
                   err_text, fault, result, raised, inventory_tbl, transactions_tbl,
                   inv_before, txn_before, mutated, agent_out, name_read, request,
                   carried, chat, work>>

\* a body that read the balance once, before its first line
PolicyLine_balance_read_once ==
    /\ pc = "exec"
    /\ request # <<>>
    /\ ip \in 1..Len(request)
    /\ LET line == request[ip]
           total == Price[line.item] * line.qty
       IN /\ transactions_tbl' =
                 Append(transactions_tbl,
                        [transaction_id |-> next_transaction_id(transactions_tbl, "TXN"),
                         transaction_amount |-> total,
                         balance_after_transaction |-> get_current_balance(txn_before) + total])
          /\ inventory_tbl' =
                 [inventory_tbl EXCEPT ![line.item] =
                      IF line.kind = "purchase" THEN @ - line.qty ELSE @ + line.qty]
    /\ mutated' = TRUE
    /\ ip' = ip + 1
    /\ UNCHANGED <<pc, text, planLen, parses, code, SAFE_LOCALS, sys_stdout, old_stdout,
                   stdout_buf, err_text, fault, result, raised, inv_before, txn_before,
                   agent_out, name_read, request, carried, chat, work>>

\* the policy for one item: its own line total, ONE transaction with that
\* amount, balance += line_total, the item's stock updated
PolicyLine ==
    /\ pc = "exec"
    /\ request # <<>>
    /\ ip \in 1..Len(request)
    /\ LET line == request[ip]
           total == Price[line.item] * line.qty
       IN /\ transactions_tbl' = Append(transactions_tbl, PolicyRow(transactions_tbl, total))
          /\ inventory_tbl' =
                 [inventory_tbl EXCEPT ![line.item] =
                      IF line.kind = "purchase" THEN @ - line.qty ELSE @ + line.qty]
    /\ mutated' = TRUE
    /\ ip' = ip + 1
    /\ UNCHANGED <<pc, text, planLen, parses, code, SAFE_LOCALS, sys_stdout, old_stdout,
                   stdout_buf, err_text, fault, result, raised, inv_before, txn_before,
                   agent_out, name_read, request, carried, chat, work>>

\* checklist step 4: answer_text and STATUS are set, a log line is printed
PolicyFinish ==
    /\ pc = "exec"
    /\ request # <<>>
    /\ ip = Len(request) + 1
    /\ ip' = planLen
    /\ SAFE_LOCALS' = [SAFE_LOCALS EXCEPT !["STATUS"] = "success",
                                          !["answer_text"] = "sentence"]
    /\ Write(<<"x">>)
    /\ UNCHANGED <<pc, text, planLen, parses, code, sys_stdout, old_stdout, err_text,
                   fault, result, raised, inventory_tbl, transactions_tbl, inv_before,
                   txn_before, mutated, agent_out, name_read, request, carried, chat, work>>

NextPolicy ==
    \/ \E req \in Requests : PolicyCall(req)
    \/ PolicyValidate
    \/ PolicyLine
    \/ PolicyFinish
    \/ ExecEnd
    \/ Return

SpecPolicy == InitPolicy /\ [][NextPolicy]_vars
----------------------------------------------------------------------------
(* Termination: exec runs the plan body in the caller's thread *)

\* a statement of the plan body that never completes (while True: pass):
\* exec does not return and nothing interrupts it
ExecLoop ==
    /\ pc = "exec"
    /\ parses
    /\ ip < planLen
    /\ pc' = "looping"
    /\ UNCHANGED <<text, planLen, parses, code, SAFE_LOCALS, sys_stdout, old_stdout,
                   stdout_buf, err_text, fault, ip, result, raised, inventory_tbl,
                   transactions_tbl, inv_before, txn_before, mutated, agent_out,
                   name_read, request, carried, chat, work>>

\* statements that bind, print or raise
TermOps == {o \in PlanOps : o.op \in {"bind", "print", "raise"}}

\* one step of the call in progress
RunStep ==
    \/ Enter
    \/ \E o \in TermOps : ExecStep(o)
    \/ ExecLoop
    \/ ExecSyntaxError
    \/ ExecEnd
    \/ Return

NextTerm ==
    \/ \E t \in CallTexts : Call(t)
    \/ RunStep

\* the interpreter keeps executing the call it is in
SpecTerm == Init /\ [][NextTerm]_vars /\ WF_vars(RunStep)
----------------------------------------------------------------------------
(* generate_research_report_with_tools: the model / tool-call loop *)

\* max_turns = 10
max_turns == 10

\* what carrying out one tool call of an assistant message comes to: the tool
\* returns, the tool raises, the name is not in TOOL_MAPPING, or the arguments
\* are not JSON
CallKinds == {"ok", "tool_raises", "unknown_tool", "bad_arguments"}

\* msg.tool_calls of one assistant message; <<>> is a final answer
ToolCallLists ==
    {<<>>} \cup UNION {[1..n -> CallKinds] : n \in 1..MaxToolCalls}

\* result of one tool call as the try / except leaves it
ToolResult(kind) == IF kind = "ok" THEN "result" ELSE "error"

\* the function is called: messages hold the system and the user message
ToolsCall ==
    /\ chat.status \in {"idle", "returned", "raised"}
    /\ chat' = [NoChat EXCEPT !.status = "loop"]
    /\ UNCHANGED agentVars
    /\ UNCHANGED work

\* one iteration starts: the model is asked and answers with kinds; an answer
\* without tool calls sets final_text, breaks and is returned
ModelTurn(kinds) ==
    /\ chat.status = "loop"
    /\ chat.turn < max_turns
    /\ chat' = IF kinds = <<>>
               THEN [chat EXCEPT !.turn = @ + 1,
                                 !.tool_calls = <<>>,
                                 !.tool_msgs = <<>>,
                                 !.final_text = "report",
                                 !.returned = "report",
                                 !.status = "returned"]
               ELSE [chat EXCEPT !.turn = @ + 1,
                                 !.tool_calls =
                                     [k \in 1..Len(kinds) |->
                                         [id |-> <<chat.turn + 1, k>>, kind |-> kinds[k]]],
                                 !.tool_msgs = <<>>,
                                 !.status = "tools"]
    /\ UNCHANGED agentVars
    /\ UNCHANGED work

\* the next tool call of the message is carried out: json.loads outside the
\* try, the tool inside it, then the tool message is appended
ToolStep ==
    /\ chat.status = "tools"
    /\ LET k == Len(chat.tool_msgs) + 1
           call == chat.tool_calls[k]
       IN  chat' = IF call.kind = "bad_arguments"
                   THEN [chat EXCEPT !.status = "raised", !.error = "JSONDecodeError"]
                   ELSE [chat EXCEPT !.tool_msgs =
                                         Append(@, [role |-> "tool",
                                                    tool_call_id |-> call.id,
                                                    content |-> ToolResult(call.kind)]),
                                     !.status = IF k = Len(chat.tool_calls)
                                                THEN "loop" ELSE "tools"]
    /\ UNCHANGED agentVars
    /\ UNCHANGED work

\* range(max_turns) is used up: return final_text
LoopEnd ==
    /\ chat.status = "loop"
    /\ chat.turn = max_turns
    /\ chat' = IF chat.final_text = "unbound"
               THEN [chat EXCEPT !.status = "raised", !.error = "UnboundLocalError"]
               ELSE [chat EXCEPT !.status = "returned", !.returned = chat.final_text]
    /\ UNCHANGED agentVars
    /\ UNCHANGED work

NextTools ==
    \/ ToolsCall
    \/ \E kinds \in ToolCallLists : ModelTurn(kinds)
    \/ ToolStep
    \/ LoopEnd

SpecTools == Init /\ [][NextTools]_vars
----------------------------------------------------------------------------
(* executor_agent: the plan steps routed to the agents of the registry *)

\* max_steps = 4
max_steps == 4

agent_registry == {"research_agent", "editor_agent", "writer_agent"}

\* the names the routing model may answer with
AgentNames == agent_registry \cup {"reviewer_agent"}

\* what may happen to one step: it is carried out, the routing answer is not
\* JSON, or the agent raises
StepOutcomes == {"ok", "bad_json", "agent_raises"}

\* plan_steps[:min(len(plan_steps), max_steps)]
Limited(plan) ==
    SubSeq(plan, 1, IF Len(plan) < max_steps THEN Len(plan) ELSE max_steps)

\* the context string of a step: one "Step j executed by a: r" per history entry
ContextOf(history) ==
    [j \in 1..Len(history) |->
        [n |-> j, agent |-> history[j].agent, output |-> history[j].output]]

\* the function is called; the planner returns n steps, step k being k
ExecutorCall(n, limit) ==
    /\ work.status \in {"idle", "returned", "raised"}
    /\ LET plan == [k \in 1..n |-> k]
       IN  work' = [NoWork EXCEPT !.status = "loop",
                                  !.planned = n,
                                  !.limit_steps = limit,
                                  !.plan_steps = IF limit THEN Limited(plan) ELSE plan]
    /\ UNCHANGED agentVars
    /\ UNCHANGED chat

\* an unknown agent ends the loop with what was done so far
StepRun_unknown_stops(agent_name, outcome) ==
    /\ work.status = "loop"
    /\ Len(work.history) < Len(work.plan_steps)
    /\ outcome = "agent_raises" => agent_name \in agent_registry
    /\ LET i == Len(work.history) + 1
           step == work.plan_steps[i]
           context == ContextOf(work.history)
       IN  work' =
             IF outcome = "bad_json"
             THEN [work EXCEPT !.status = "raised", !.error = "JSONDecodeError"]
             ELSE IF agent_name \in agent_registry
             THEN IF outcome = "agent_raises"
                  THEN [work EXCEPT !.contexts = Append(@, context),
                                    !.status = "raised", !.error = "Exception"]
                  ELSE [work EXCEPT !.contexts = Append(@, context),
                                    !.history = Append(@, [step |-> step,
                                                           agent |-> agent_name,
                                                           output |-> <<agent_name, i>>])]
             ELSE [work EXCEPT !.status = "returned", !.returned = work.history]
    /\ UNCHANGED agentVars
    /\ UNCHANGED chat

\* one iteration of the loop over plan_steps: the routing call, json.loads,
\* the context from history, the agent's call, the append to history
StepRun(agent_name, outcome) ==
    /\ work.status = "loop"
    /\ Len(work.history) < Len(work.plan_steps)
    /\ outcome = "agent_raises" => agent_name \in agent_registry
    /\ LET i == Len(work.history) + 1
           step == work.plan_steps[i]
           context == ContextOf(work.history)
       IN  work' =
             IF outcome = "bad_json"
             THEN [work EXCEPT !.status = "raised", !.error = "JSONDecodeError"]
             ELSE IF agent_name \in agent_registry
             THEN IF outcome = "agent_raises"
                  THEN [work EXCEPT !.contexts = Append(@, context),
                                    !.status = "raised", !.error = "Exception"]
                  ELSE [work EXCEPT !.contexts = Append(@, context),
                                    !.history = Append(@, [step |-> step,
                                                           agent |-> agent_name,
                                                           output |-> <<agent_name, i>>])]
             ELSE [work EXCEPT !.contexts = Append(@, context),
                               !.history = Append(@, [step |-> step,
                                                      agent |-> agent_name,
                                                      output |-> <<"Unknown agent", agent_name>>])]
    /\ UNCHANGED agentVars
    /\ UNCHANGED chat

\* the loop is over: return history
ExecutorReturn ==
    /\ work.status = "loop"
    /\ Len(work.history) = Len(work.plan_steps)
    /\ work' = [work EXCEPT !.status = "returned", !.returned = work.history]
    /\ UNCHANGED agentVars
    /\ UNCHANGED chat

NextExecutor ==
    \/ \E n \in 0..MaxPlanSteps, limit \in BOOLEAN : ExecutorCall(n, limit)
    \/ \E a \in AgentNames, o \in StepOutcomes : StepRun(a, o)
    \/ ExecutorReturn

SpecExecutor == Init /\ [][NextExecutor]_vars
----------------------------------------------------------------------------
(* The extractor on its own: _extract_execute_block applied to one raw text *)

\* the generator's text grows by one token
Emit(tok) ==
    /\ pc = "idle"
    /\ Len(text) < MaxLen
    /\ text' = Append(text, tok)
    /\ UNCHANGED <<pc, planLen, parses, code, SAFE_LOCALS, sys_stdout, old_stdout,
                   stdout_buf, err_text, fault, ip, result, raised, inventory_tbl,
                   transactions_tbl, inv_before, txn_before,
                   mutated, agent_out, name_read>>
    /\ UNCHANGED <<request, carried, chat, work>>

\* _extract_execute_block(text) called once; a RuntimeError leaves the call
Extract ==
    /\ pc = "idle"
    /\ LET e == extract_execute_block(text)
       IN /\ code' = e.value
          /\ raised' = IF e.ok THEN "none" ELSE "RuntimeError"
    /\ pc' = "extracted"
    /\ UNCHANGED <<text, planLen, parses, SAFE_LOCALS, sys_stdout, old_stdout, stdout_buf,
                   err_text, fault, ip, result, inventory_tbl, transactions_tbl,
                   inv_before, txn_before,
                   mutated, agent_out, name_read>>
    /\ UNCHANGED <<request, carried, chat, work>>

NextExtract ==
    \/ \E tok \in Tokens : Emit(tok)
    \/ Extract

SpecExtract == Init /\ [][NextExtract]_vars

----------------------------------------------------------------------------
(* Vocabulary of the properties, written over the tokens themselves *)

OpenTag(tok) == tok \in {"O", "Ou"}

CloseTag(tok) == tok \in {"C", "Cu"}

Blank(t) == \A i \in 1..Len(t) : t[i] = "n"

\* the text with its leading and trailing whitespace removed
Trimmed(t) ==
    LET inner == {i \in 1..Len(t) : t[i] # "n"}
    IN IF inner = {} THEN <<>>
       ELSE [k \in 1..(SetMax(inner) - SetMin(inner) + 1) |-> t[SetMin(inner) + k - 1]]

\* an open tag with a close tag somewhere after it
HasPair(t) == \E i, j \in 1..Len(t) : i < j /\ OpenTag(t[i]) /\ CloseTag(t[j])

\* two delimited regions, one after the other
HasTwoRegions(t) ==
    \E j \in 1..Len(t) :
        /\ CloseTag(t[j])
        /\ \E i \in 1..(j - 1) : OpenTag(t[i])
        /\ \E k \in (j + 1)..Len(t) :
              /\ OpenTag(t[k])
              /\ \E l \in (k + 1)..Len(t) : CloseTag(t[l])

\* t[i] is the first open tag of t and t[j] the first close tag after it
FirstRegion(t, i, j) ==
    /\ i < j /\ OpenTag(t[i]) /\ CloseTag(t[j])
    /\ \A h \in 1..(i - 1) : ~OpenTag(t[h])
    /\ \A h \in (i + 1)..(j - 1) : ~CloseTag(t[h])

Interior(t, i, j) == [k \in 1..(j - i - 1) |-> t[i + k]]
----------------------------------------------------------------------------
(* Block Extractor: C6 - C9, checked under SpecExtract *)

\* C6 as stated: the extraction fails with EmptyInput exactly when the raw text
\* is empty or consists only of whitespace.
C6_EmptyInputIffBlank ==
    pc = "extracted" => ((raised = "RuntimeError") <=> Blank(text))

\* C6 as amended: the extraction fails with EmptyInput exactly when the raw text
\* has length zero; a non-empty text of whitespace only does not fail and yields
\* the empty plan body.
C6_EmptyInputIffEmpty ==
    pc = "extracted" =>
        /\ (raised = "RuntimeError") <=> (Len(text) = 0)
        /\ (Len(text) > 0 /\ Blank(text)) => (raised = "none" /\ code = <<>>)

C6_Witness ==
    /\ pc = "extracted"
    /\ text = <<"n", "n">>
    /\ raised = "none"
    /\ code = <<>>

\* C7 as stated: for every way of reading the text as prefix, open tag, body,
\* close tag, suffix (tags in any letter case) the extraction returns the body
\* without its leading and trailing whitespace.
C7_AnyDelimitedBody ==
    pc = "extracted" =>
        \A i, j \in 1..Len(text) :
            (i < j /\ OpenTag(text[i]) /\ CloseTag(text[j]))
                => (raised = "none" /\ code = Trimmed(Interior(text, i, j)))

\* C7 as amended: when the prefix holds no open tag and the body holds no close
\* tag (tags in any letter case), the extraction returns the body without its
\* leading and trailing whitespace, whatever the prefix and the suffix are.
C7_FirstDelimitedBody ==
    pc = "extracted" =>
        \A i, j \in 1..Len(text) :
            FirstRegion(text, i, j)
                => (raised = "none" /\ code = Trimmed(Interior(text, i, j)))

C7_Witness ==
    /\ pc = "extracted"
    /\ text = <<"x", "Ou", "n", "x", "Cu", "x">>
    /\ code = <<"x">>

\* C8: a non-empty text without an open tag followed by a close tag (no tags,
\* an open tag only, a close tag only, a close tag before the open tag) is
\* returned whole, without its leading and trailing whitespace, and no error
\* is raised.
C8_FallbackWholeText ==
    (pc = "extracted" /\ Len(text) > 0 /\ ~HasPair(text))
        => (raised = "none" /\ code = Trimmed(text))

C8_Witness ==
    /\ pc = "extracted"
    /\ text = <<"n", "C", "x", "O", "n">>
    /\ raised = "none"
    /\ code = <<"C", "x", "O">>

\* C9: of two or more delimited regions the extraction returns the interior of
\* the first one, which ends at the first close tag after the first open tag,
\* without its leading and trailing whitespace; nothing at or after that close
\* tag is returned.
C9_FirstRegionOnly ==
    (pc = "extracted" /\ HasTwoRegions(text)) =>
        \E i, j \in 1..Len(text) :
            /\ FirstRegion(text, i, j)
            /\ raised = "none"
            /\ code = Trimmed(Interior(text, i, j))

C9_Witness ==
    /\ pc = "extracted"
    /\ text = <<"O", "x", "C", "Ou", "n", "Cu">>
    /\ code = <<"x">>
----------------------------------------------------------------------------
(* Sandbox Executor and Result Assembler: C1 - C5, C10, checked under Spec *)

ResultKeys == {"code", "stdout", "error", "answer", "transactions_tbl", "inventory_tbl"}

\* a result that tells its caller of a contract violation: by a status when it
\* carries one, otherwise by carrying neither a fault nor an answer
ReportsContractViolation(r) ==
    IF "status" \in DOMAIN r THEN r.status = "ContractViolation"
    ELSE r.error = None /\ r.answer = None

\* C1 as stated: a plan body that finishes without a fault and never binds
\* answer_text is reported as a contract violation, whatever else it bound or
\* mutated; it is never handed back as a success.
C1_MissingAnswerTextReported ==
    (pc = "returned" /\ fault = "none" /\ SAFE_LOCALS["answer_text"] = Unset)
        => ReportsContractViolation(result)

\* C2 as stated: after a plan body that finishes without a fault the result
\* carries the status the plan bound when that is one of the five enumerated
\* values, and reports a contract violation when STATUS is unset or any other
\* value.
C2_StatusReported ==
    (pc = "returned" /\ fault = "none") =>
        IF SAFE_LOCALS["STATUS"] \in StatusEnum
        THEN "status" \in DOMAIN result /\ result.status = SAFE_LOCALS["STATUS"]
        ELSE ReportsContractViolation(result)

C5_EmptyInputShortCircuits ==
    /\ (pc = "raised" /\ fault = "none") => (raised = "RuntimeError" /\ text = <<>>)
    /\ raised = "RuntimeError" =>
          /\ pc = "raised"
          /\ ip = 0
          /\ fault = "none"
          /\ sys_stdout = "console"
          /\ stdout_buf = <<>>
          /\ SAFE_LOCALS = FreshLocals
          /\ result = NoResult
          /\ inventory_tbl = inv_before
          /\ transactions_tbl = txn_before
    /\ pc \in {"exec", "harvest", "returned"} => text # <<>>

\* an empty text handed over after an earlier run has changed the store
C5_Witness ==
    /\ pc = "raised"
    /\ raised = "RuntimeError"
    /\ inventory_tbl # [i \in Items |-> 1]
    /\ Len(transactions_tbl) > 1
    /\ sys_stdout = "console"

----------------------------------------------------------------------------
(* Claims about the tables across a run *)

\* C11: a run whose plan body executes no write to either table ends with both
\* tables equal to what they were before the run, and hands back those same
\* contents, whether the plan body ran to its end, bound no answer_text, or
\* faulted
C11_NoMutationFrame ==
    (pc \in {"harvest", "returned", "raised"} /\ ~mutated) =>
        /\ inventory_tbl = inv_before
        /\ transactions_tbl = txn_before
        /\ (pc = "returned") =>
               /\ result.inventory_tbl = inv_before
               /\ result.transactions_tbl = txn_before
               /\ agent_out.exec.inventory_after = inv_before
               /\ agent_out.exec.transactions_after = txn_before

\* a faulted run without writes, after an earlier run changed both tables
C11_Witness ==
    /\ pc = "returned"
    /\ ~mutated
    /\ ip > 0
    /\ fault = "Exception"
    /\ inv_before # [i \in Items |-> 1]
    /\ Len(txn_before) > 1

\* the fields of the dict customer_service_agent nests under "exec"
ExecKeys == {"code", "stdout", "error", "answer", "inventory_after", "transactions_after"}

\* C12 as stated: the result record of a run carries, next to the two
\* snapshots taken after the plan body stopped, a snapshot of the inventory
\* and one of the ledger taken before the plan body executed
C12_FourSnapshots ==
    (pc = "returned") =>
        /\ {"inventory_after", "transactions_after"} \subseteq DOMAIN agent_out.exec
        /\ \E k \in DOMAIN agent_out.exec : k \in {"inventory_before"}
        /\ \E k \in DOMAIN agent_out.exec : k \in {"ledger_before", "transactions_before"}

\* C12: the result record of a run carries the two snapshots taken after the
\* plan body stopped and nothing of the tables as they were before: its
\* fields are exactly code, stdout, error, answer, inventory_after and
\* transactions_after, and the two snapshots are the tables' contents at the return
C12_AfterSnapshotsOnly ==
    (pc = "returned") =>
        /\ DOMAIN agent_out = {"full_content", "exec"}
        /\ DOMAIN agent_out.exec = ExecKeys
        /\ agent_out.exec.inventory_after = inventory_tbl
        /\ agent_out.exec.transactions_after = transactions_tbl
        /\ result.inventory_tbl = inventory_tbl
        /\ result.transactions_tbl = transactions_tbl

\* a run that changed both tables has returned
C12_Witness ==
    /\ pc = "returned"
    /\ mutated
    /\ inventory_tbl # inv_before
    /\ transactions_tbl # txn_before

----------------------------------------------------------------------------
(* Claims about the captured output *)

\* C13 as stated: the stdout field of the result is, character for
\* character, everything the plan body wrote to standard output, leading and
\* trailing whitespace and newlines included
C13_StdoutVerbatim ==
    (pc = "returned") => result.stdout = stdout_buf

\* C13: the stdout field of the result is everything the plan body wrote to
\* standard output during the run, what it wrote before a fault included,
\* with the leading and trailing whitespace removed and the whitespace
\* inside kept
C13_StdoutTrimmed ==
    (pc = "returned") =>
        /\ result.stdout = Trimmed(stdout_buf)
        /\ agent_out.exec.stdout = Trimmed(stdout_buf)

\* a plan body that printed twice and then faulted
C13_Witness ==
    /\ pc = "returned"
    /\ fault = "Exception"
    /\ stdout_buf = <<"x", "n", "x", "n">>
    /\ result.stdout = <<"x", "n", "x">>

----------------------------------------------------------------------------
(* Claims about the namespace of the plan body *)

\* the five bindings the plan body is said to see
FiveBindings ==
    {"inventory_tbl", "transactions_tbl", "get_current_balance", "next_transaction_id",
     "user_request"}

\* names that reach the file system, other modules or the process
GrantsAccess == {"open", "__import__", "db"}

\* C14 as stated: a name the plan body has not bound itself resolves exactly
\* when it is one of inventory_tbl, transactions_tbl, get_current_balance,
\* next_transaction_id and user_request, and no name that resolves gives
\* access to the file system, the network, the process or the environment
C14_FiveBindingsNoAccess ==
    (pc \in {"exec", "harvest", "returned"} /\ name_read \notin PlanNames \cup {"none"}) =>
        /\ (fault = "none") <=> (name_read \in FiveBindings)
        /\ (fault = "none") => (name_read \notin GrantsAccess)

----------------------------------------------------------------------------
(* Claims about what a sequence of runs preserves in the tables *)

\* no call of execute_generated_code is in progress
BetweenRuns == pc \in {"idle", "returned", "raised"}

\* s is an initial segment of t
IsPrefix(s, t) == Len(s) <= Len(t) /\ \A k \in 1..Len(s) : s[k] = t[k]

\* C15 as stated: starting from a store in which every quantity_in_stock is
\* at least zero, after any sequence of runs every item still has a
\* quantity_in_stock of at least zero whenever no run is in progress
C15_StockNeverNegative ==
    BetweenRuns => \A i \in Items : inventory_tbl[i] >= 0

\* C16 as stated: after any sequence of runs, runs that faulted after some of
\* their writes included, every ledger row but the first has a balance equal
\* to the balance of the row before it plus its own amount
C16_BalanceChain ==
    BetweenRuns =>
        \A k \in 2..Len(transactions_tbl) :
            transactions_tbl[k].balance_after_transaction =
                transactions_tbl[k - 1].balance_after_transaction
                + transactions_tbl[k].transaction_amount

\* C17 as stated: the ledger is append-only across every run: when a run has
\* ended, the ledger as it was before the run is an initial segment of the
\* ledger after it
C17_LedgerAppendOnly ==
    (pc \in {"returned", "raised"}) => IsPrefix(txn_before, transactions_tbl)

----------------------------------------------------------------------------
(* Claims about the ledger helpers *)

\* the ids of the rows of a ledger
IdsOf(tbl) == {tbl[k].transaction_id : k \in 1..Len(tbl)}

\* C18: for every ledger and every prefix, next_transaction_id gives an id
\* under that prefix that no row of the ledger carries and whose number is
\* above that of every row sharing the prefix; and of the rows appended one
\* after another, each under the id next_transaction_id gave for the ledger
\* of that moment, every one differs in id from all rows before it and is
\* numbered above all rows before it that share its prefix
C18_NextIdFreshAndIncreasing ==
    /\ \A p \in Prefixes :
           LET id == next_transaction_id(transactions_tbl, p)
           IN /\ id.prefix = p
              /\ id \notin IdsOf(transactions_tbl)
              /\ \A other \in IdsOf(transactions_tbl) :
                     (other.prefix = p) => (id.num > other.num)
    /\ (pc = "store") =>
           \A k \in (Len(txn_before) + 1)..Len(transactions_tbl) :
               \A j \in 1..(k - 1) :
                   /\ transactions_tbl[j].transaction_id # transactions_tbl[k].transaction_id
                   /\ (transactions_tbl[j].transaction_id.prefix
                           = transactions_tbl[k].transaction_id.prefix)
                      => (transactions_tbl[j].transaction_id.num
                              < transactions_tbl[k].transaction_id.num)

\* two rows appended under one prefix to a ledger whose numbers have a gap
\* and are out of order
C18_Witness ==
    /\ pc = "store"
    /\ Len(txn_before) = 2
    /\ txn_before[1].transaction_id = TxnId("TXN", 3)
    /\ txn_before[2].transaction_id = TxnId("TXN", 1)
    /\ Len(transactions_tbl) = 4
    /\ transactions_tbl[3].transaction_id = TxnId("TXN", 4)
    /\ transactions_tbl[4].transaction_id = TxnId("TXN", 5)

----------------------------------------------------------------------------
(* Claims about the two writes a plan body makes *)

\* C19 as stated: a stock adjustment whose result would be negative fails
\* and leaves the items as they were, so a quantity that a run has changed
\* is never negative
C19_AdjustmentValidated ==
    \A i \in Items : (inventory_tbl[i] # inv_before[i]) => (inventory_tbl[i] >= 0)

\* C20 as stated: appending a row whose transaction_id a ledger row already
\* carries fails and leaves the ledger as it was, so the ids of the ledger
\* are pairwise distinct after any sequence of appends
C20_IdsPairwiseDistinct ==
    \A j, k \in 1..Len(transactions_tbl) :
        (j # k) => (transactions_tbl[j].transaction_id # transactions_tbl[k].transaction_id)

\* the running balance the newest row of a ledger records
LastBalance(tbl) ==
    LET newest == {k \in 1..Len(tbl) : \A j \in 1..Len(tbl) : j <= k}
    IN IF newest = {} THEN 0
       ELSE LET k == CHOOSE n \in newest : TRUE IN tbl[k].balance_after_transaction

\* C21: for every ledger, get_current_balance gives the running balance
\* of the row appended last, zero for a ledger without rows, and the call
\* leaves both tables as they were
C21_CurrentBalanceIsLast ==
    [][(pc' = "read") =>
          /\ result'.balance = LastBalance(transactions_tbl)
          /\ transactions_tbl' = transactions_tbl
          /\ inventory_tbl' = inventory_tbl]_vars

\* the balance was read from a ledger whose rows carry different balances,
\* and from a ledger without rows
C21_Witness ==
    /\ pc = "read"
    /\ Len(transactions_tbl) = 3
    /\ transactions_tbl[1].balance_after_transaction = 2
    /\ transactions_tbl[2].balance_after_transaction = 0
    /\ result.balance = 1

----------------------------------------------------------------------------
(* Claims about plan bodies that carry out the transaction policy *)

\* the amount of the k-th line of the request: unit price times quantity
LineTotal(k) == Price[request[k].item] * request[k].qty

\* the change of stock the k-th line of the request asks for
LineDelta(k) == IF request[k].kind = "purchase" THEN 0 - request[k].qty ELSE request[k].qty

Short == \E k \in 1..Len(request) :
             request[k].kind = "purchase" /\ request[k].qty > inv_before[request[k].item]

\* C23 as stated: when a purchase asks for more units of an item than are in
\* stock, alone or next to lines that could be served, the run writes to
\* neither table, answer_text is non-empty and the status of the result is
\* insufficient_stock
C23_InsufficientStockReported ==
    (pc = "returned" /\ request # <<>> /\ Short) =>
        /\ inventory_tbl = inv_before
        /\ transactions_tbl = txn_before
        /\ SAFE_LOCALS["answer_text"] = "sentence"
        /\ result.answer = "sentence"
        /\ "status" \in DOMAIN result
        /\ result.status = "insufficient_stock"

\* C24 as stated: a return of q units of an item at unit price p raises the
\* item's stock by q and appends exactly one row of amount q*p whose balance
\* is the balance before plus q*p, with status success in the result; SG001
\* at 23 units and a balance of 500, q = 2, p = 80 give 25 units, an amount of
\* 160 and a balance of 660
C24_ReturnReported ==
    (pc = "returned" /\ Len(request) = 1 /\ request[1].kind = "return") =>
        LET item == request[1].item
            q == request[1].qty
            b == Len(txn_before)
        IN /\ inventory_tbl[item] = inv_before[item] + q
           /\ Len(transactions_tbl) = b + 1
           /\ transactions_tbl[b + 1].transaction_amount = q * Price[item]
           /\ transactions_tbl[b + 1].balance_after_transaction =
                  txn_before[b].balance_after_transaction + q * Price[item]
           /\ (item = "SG001" /\ q = 2 /\ inv_before[item] = 23
                   /\ txn_before[b].balance_after_transaction = 500)
              => /\ inventory_tbl[item] = 25
                 /\ transactions_tbl[b + 1].transaction_amount = 160
                 /\ transactions_tbl[b + 1].balance_after_transaction = 660
           /\ "status" \in DOMAIN result
           /\ result.status = "success"

----------------------------------------------------------------------------
(* Claims about termination *)

----------------------------------------------------------------------------
(* Claims about the research agents *)

\* C26: generate_research_report_with_tools asks the model at most max_turns
\* times, answers every tool call of an assistant message with one tool
\* message carrying that call's id before it asks again, and, whenever the
\* model sends well-formed arguments, ends by returning the final text
C26_ReportReturned ==
    /\ chat.turn <= max_turns
    /\ (chat.status = "loop" /\ chat.turn > 0)
       => /\ Len(chat.tool_msgs) = Len(chat.tool_calls)
          /\ \A k \in 1..Len(chat.tool_calls) :
                 chat.tool_msgs[k].tool_call_id = chat.tool_calls[k].id
    /\ (chat.status \in {"returned", "raised"}
            /\ \A k \in 1..Len(chat.tool_calls) : chat.tool_calls[k].kind # "bad_arguments")
       => /\ chat.status = "returned"
          /\ chat.returned = "report"

\* the steps a call is to carry out: the planner's, the first four under limit_steps
StepsDue ==
    IF work.limit_steps /\ work.planned > 4 THEN 4 ELSE work.planned

\* C27: executor_agent carries out the planner's steps in their order, never
\* more than 4 under limit_steps; the history it returns holds one entry per
\* step carried out, the k-th entry being the k-th step of the plan; the
\* context given to step i is the outputs of steps 1..i-1 and nothing else; a
\* step routed to a name outside the registry is recorded with the warning as
\* its output and the later steps are carried out all the same
C27_HistoryFollowsPlan ==
    /\ work.limit_steps => Len(work.history) <= 4
    /\ Len(work.history) <= work.planned
    /\ \A k \in 1..Len(work.history) :
           /\ work.history[k].step = k
           /\ work.history[k].agent \notin {"research_agent", "editor_agent", "writer_agent"}
                  => work.history[k].output = <<"Unknown agent", work.history[k].agent>>
    /\ \A i \in 1..Len(work.contexts) :
           /\ Len(work.contexts[i]) = i - 1
           /\ \A j \in 1..(i - 1) :
                  /\ j <= Len(work.history)
                  /\ work.contexts[i][j].output = work.history[j].output
                  /\ work.contexts[i][j].agent = work.history[j].agent
    /\ work.status = "returned"
       => /\ work.returned = work.history
          /\ Len(work.returned) = StepsDue
          /\ Len(work.contexts) = StepsDue

\* a plan of five steps was cut to four, the second went to an unknown agent
\* and the later steps were still carried out
C27_Witness ==
    /\ work.status = "returned"
    /\ work.limit_steps
    /\ work.planned = 5
    /\ Len(work.returned) = 4
    /\ work.returned[2].agent = "reviewer_agent"
    /\ work.returned[3].agent = "research_agent"
    /\ work.contexts[4][2].output = <<"Unknown agent", "reviewer_agent">>

----------------------------------------------------------------------------
(* Claims about the redirection and the names of a run *)

\* C28: once a call of execute_generated_code has left its try statement, by
\* the end of the plan body, by a fault that is caught or by one that escapes,
\* sys.stdout is again the stream it was before the call; between calls
\* sys.stdout is never the capture buffer, so what the caller prints then
\* reaches no log, and the log of a call is empty when its plan body starts
C28_StdoutRestored ==
    /\ (pc \in {"harvest", "returned"} \/ (pc = "raised" /\ fault # "none"))
       => /\ sys_stdout = old_stdout
          /\ sys_stdout = "console"
    /\ (pc \in {"idle", "extract", "returned", "raised"}) => sys_stdout # "buffer"
    /\ (pc = "exec" /\ ip = 0) => stdout_buf = <<>>

\* a plan body printed and then raised an exception that escaped the call
C28_Witness ==
    /\ pc = "raised"
    /\ fault = "BaseException"
    /\ stdout_buf # <<>>
    /\ sys_stdout = "console"
    /\ old_stdout = "console"

\* C29: the answer of a returned result is answer_text when the plan body
\* bound it to a non-empty string, otherwise answer_rows when bound and
\* non-empty, otherwise answer_json whatever it was bound to, otherwise None:
\* an empty answer_text counts as an unbound one, and with a non-empty
\* answer_text neither of the other two is the answer
C29_AnswerPrecedence ==
    (pc = "returned") =>
        result.answer =
            IF SAFE_LOCALS["answer_text"] \notin {Unset, ""}
            THEN SAFE_LOCALS["answer_text"]
            ELSE IF SAFE_LOCALS["answer_rows"] \notin {Unset, "[]"}
            THEN SAFE_LOCALS["answer_rows"]
            ELSE IF SAFE_LOCALS["answer_json"] # Unset
            THEN SAFE_LOCALS["answer_json"]
            ELSE "None"

\* a plan body bound all three, the first two to empty values
C29_Witness ==
    /\ pc = "returned"
    /\ SAFE_LOCALS["answer_text"] = ""
    /\ SAFE_LOCALS["answer_rows"] = "[]"
    /\ SAFE_LOCALS["answer_json"] = "{}"
    /\ result.answer = "{}"

\* C30: a call of the executor starts its plan body with none of the names a
\* plan body binds bound, whatever the plan bodies of earlier calls bound: a
\* plan body whose first statement reads such a name gets a NameError, and a
\* call whose plan body is empty returns no answer; the tables are all that
\* an earlier call leaves to a later one
C30_FreshBindingsEachRun ==
    /\ (pc = "exec" /\ ip = 0)
       => \A n \in {"answer_text", "answer_rows", "answer_json", "STATUS"} :
              SAFE_LOCALS[n] = "Unset"
    /\ (ip = 1 /\ name_read \in {"answer_text", "answer_rows", "answer_json", "STATUS"})
       => fault = "Exception"
    /\ (pc = "returned" /\ planLen = 0) => result.answer = "None"

\* an earlier call bound answer_text; this call's plan body read the name in
\* its first statement, faulted, and the call returned no answer
C30_Witness ==
    /\ pc = "returned"
    /\ "answer_text" \in carried
    /\ ip = 1
    /\ name_read = "answer_text"
    /\ fault = "Exception"
    /\ result.answer = "None"
====
